---- MODULE Spec2Model ----
(***************************************************************************)
(* Model of rest_framework/exceptions.py: the APIException hierarchy, the  *)
(* ValidationError detail normalisation (_force_text_recursive),           *)
(* build_error / build_error_from_django_validation_error and the          *)
(* REQUIRE_ERROR_CODES contract.                                           *)
(*                                                                         *)
(* Python values are records of one shape:                                 *)
(*   t     the Python type: "str", "lazy" (a ugettext_lazy promise),       *)
(*         "none", "int", "num" (a number given in tenths), "list",        *)
(*         "tuple", "dict"                                                 *)
(*   v     the text of a str / lazy                                        *)
(*   n     the number of an int (units) / num (tenths)                     *)
(*   keys  the keys of a dict, in iteration order                          *)
(*   items the elements of a list / tuple, the values of a dict            *)
(* Integers are those of Python 3 (math.ceil returns an int).              *)
(***************************************************************************)
EXTENDS Integers, Sequences, FiniteSets, TLC

VARIABLES api_settings, pc, op, args, self, ret, raised, builder_calls, rewrap

vars == <<api_settings, pc, op, args, self, ret, raised, builder_calls, rewrap>>

----------------------------------------------------------------------------
(* Bounds of the explored inputs. *)

\* Largest number of nodes (containers and leaves) of a detail structure.
MaxNodes == 4

\* Largest `wait` handed to Throttled, in tenths of a second.
MaxWaitTenths == 300

\* Largest number of messages of a Django validation error.
MaxMessages == 2

----------------------------------------------------------------------------
(* Python values. *)

Str(s) == [t |-> "str", v |-> s, n |-> 0, keys |-> <<>>, items |-> <<>>]

Lazy(s) == [t |-> "lazy", v |-> s, n |-> 0, keys |-> <<>>, items |-> <<>>]

NoneV == [t |-> "none", v |-> "", n |-> 0, keys |-> <<>>, items |-> <<>>]

IntV(k) == [t |-> "int", v |-> "", n |-> k, keys |-> <<>>, items |-> <<>>]

Tenths(q) == [t |-> "num", v |-> "", n |-> q, keys |-> <<>>, items |-> <<>>]

List(xs) == [t |-> "list", v |-> "", n |-> 0, keys |-> <<>>, items |-> xs]

Tuple(xs) == [t |-> "tuple", v |-> "", n |-> 0, keys |-> <<>>, items |-> xs]

Dict(ks, xs) == [t |-> "dict", v |-> "", n |-> 0, keys |-> ks, items |-> xs]

\* isinstance(x, list) / isinstance(x, tuple) / isinstance(x, dict)
isinstance(x, type) == x.t = type

\* Truth value of a Python object (`x or y`): None, '', 0 and empty
\* containers are false.
truthy(x) ==
    CASE x.t = "none" -> FALSE
      [] x.t \in {"str", "lazy"} -> x.v # ""
      [] x.t \in {"int", "num"} -> x.n # 0
      [] OTHER -> Len(x.items) > 0

----------------------------------------------------------------------------
(* The inputs: leaf messages and nested structures of at most MaxNodes     *)
(* nodes.                                                                  *)

Leaves == {Str("a"), Lazy("b"), NoneV}

Keys == {"k1", "k2"}

\* The key sequences of a dict of `len` entries: distinct keys, any order.
KeySeqs(len) ==
    {ks \in [1..len -> Keys] : \A i, j \in 1..len : ks[i] = ks[j] => i = j}

RECURSIVE ValuesOfSize(_), ItemsOfSize(_)

\* The sequences of values whose sizes add up to k.
ItemsOfSize(k) ==
    IF k = 0 THEN {<<>>}
    ELSE UNION {{<<x>> \o s : x \in ValuesOfSize(i), s \in ItemsOfSize(k - i)} :
                i \in 1..k}

\* The values of exactly n nodes.
ValuesOfSize(n) ==
    LET S == ItemsOfSize(n - 1)
    IN  (IF n = 1 THEN Leaves ELSE {})
        \cup {List(s) : s \in S}
        \cup {Tuple(s) : s \in S}
        \cup UNION {{Dict(ks, s) : ks \in KeySeqs(Len(s))} : s \in S}

Details == UNION {ValuesOfSize(n) : n \in 1..MaxNodes}

\* Single messages: neither a list nor a dict.
Messages == {d \in ValuesOfSize(1) \cup ValuesOfSize(2) : d.t \notin {"list", "dict"}}

ErrorCodes == {NoneV, Str("required")}

----------------------------------------------------------------------------
(* Library functions the module imports. *)

\* django.utils.encoding.force_text(s): a str is returned as it is, a lazy
\* translation is resolved to its text, and any other object becomes
\* six.text_type(s): 'None' for None, the decimal digits for an int.
force_text(s) ==
    CASE s.t = "str" -> s
      [] s.t = "lazy" -> Str(s.v)
      [] s.t = "none" -> Str("None")
      [] s.t = "int" -> Str(ToString(s.n))

\* Faulty variant of math_ceil: rounds down instead of up.
math_ceil_rounding_down(x) == IntV(x.n \div 10)

\* math.ceil of a number given in tenths.
math_ceil(x) == IntV((x.n + 9) \div 10)

\* django.utils.translation.ungettext(singular, plural, number) with no
\* translation active: the singular for exactly 1, else the plural.
ungettext(singular, plural, number) ==
    IF number.n = 1 THEN singular ELSE plural

RECURSIVE format(_, _, _)

\* str.format(name=value) on the text s: every "{name}" of s is replaced by
\* the text of value.
format(s, name, value) ==
    LET field == "{" \o name \o "}"
    IN  IF Len(s) < Len(field) THEN s
        ELSE IF SubSeq(s, 1, Len(field)) = field
             THEN force_text(value).v
                  \o format(SubSeq(s, Len(field) + 1, Len(s)), name, value)
             ELSE SubSeq(s, 1, 1) \o format(SubSeq(s, 2, Len(s)), name, value)

----------------------------------------------------------------------------
(* exceptions.py *)

RECURSIVE force_text_recursive_tuple_as_list(_)

\* Faulty variant of force_text_recursive: a tuple comes back as a list.
force_text_recursive_tuple_as_list(data) ==
    IF isinstance(data, "list") \/ isinstance(data, "tuple")
    THEN List([i \in 1..Len(data.items) |->
                force_text_recursive_tuple_as_list(data.items[i])])
    ELSE IF isinstance(data, "dict")
    THEN Dict(data.keys,
              [i \in 1..Len(data.items) |->
                force_text_recursive_tuple_as_list(data.items[i])])
    ELSE force_text(data)

RECURSIVE force_text_recursive_quoting(_)

\* Faulty variant of force_text_recursive: a leaf becomes its quoted
\* representation instead of its text.
force_text_recursive_quoting(data) ==
    IF isinstance(data, "list")
    THEN List([i \in 1..Len(data.items) |->
                force_text_recursive_quoting(data.items[i])])
    ELSE IF isinstance(data, "tuple")
    THEN Tuple([i \in 1..Len(data.items) |->
                force_text_recursive_quoting(data.items[i])])
    ELSE IF isinstance(data, "dict")
    THEN Dict(data.keys,
              [i \in 1..Len(data.items) |->
                force_text_recursive_quoting(data.items[i])])
    ELSE Str("'" \o force_text(data).v \o "'")

RECURSIVE force_text_recursive(_)

\* _force_text_recursive(data)
force_text_recursive(data) ==
    IF isinstance(data, "list")
    THEN List([i \in 1..Len(data.items) |-> force_text_recursive(data.items[i])])
    ELSE IF isinstance(data, "tuple")
    THEN Tuple([i \in 1..Len(data.items) |-> force_text_recursive(data.items[i])])
    ELSE IF isinstance(data, "dict")
    THEN Dict(data.keys,
              [i \in 1..Len(data.items) |-> force_text_recursive(data.items[i])])
    ELSE force_text(data)

\* default_error_builder(detail, error_code)
default_error_builder(detail, error_code) == Tuple(<<detail, error_code>>)

\* api_settings.ERROR_BUILDER(detail, error_code): the configured builder.
ERROR_BUILDER(detail, error_code) ==
    CASE api_settings.ERROR_BUILDER = "default_error_builder" ->
            default_error_builder(detail, error_code)

\* The outcome of a call: the exception raised ("" for none), the value
\* returned and the number of calls of the error builder it made.
Returned(value, calls) == [raised |-> "", value |-> value, calls |-> calls]

Raised(exc, calls) == [raised |-> exc, value |-> NoneV, calls |-> calls]

\* Faulty variant of build_error: the error code is never required.
build_error_without_code_check(detail, error_code) ==
    IF ~(~isinstance(detail, "dict") /\ ~isinstance(detail, "list"))
    THEN Raised("AssertionError", 0)
    ELSE Returned(ERROR_BUILDER(detail, error_code), 1)

\* Faulty variant of build_error: the builder is called before the error
\* code is checked.
build_error_building_first(detail, error_code) ==
    IF ~(~isinstance(detail, "dict") /\ ~isinstance(detail, "list"))
    THEN Raised("AssertionError", 0)
    ELSE IF api_settings.REQUIRE_ERROR_CODES /\ ~(error_code # NoneV)
    THEN Raised("AssertionError", 1)
    ELSE Returned(ERROR_BUILDER(detail, error_code), 1)

\* build_error(detail, error_code=None)
build_error(detail, error_code) ==
    IF ~(~isinstance(detail, "dict") /\ ~isinstance(detail, "list"))
    THEN Raised("AssertionError", 0)
    ELSE IF api_settings.REQUIRE_ERROR_CODES /\ ~(error_code # NoneV)
    THEN Raised("AssertionError", 0)
    ELSE Returned(ERROR_BUILDER(detail, error_code), 1)

RECURSIVE build_each(_, _)

\* [build_error(msg, error_code=code) for msg in messages]: the list built
\* so far, or the first exception raised.
build_each(messages, code) ==
    IF messages = <<>> THEN Returned(List(<<>>), 0)
    ELSE LET first == build_error(Head(messages), code)
             rest == build_each(Tail(messages), code)
         IN  IF first.raised # "" THEN first
             ELSE IF rest.raised # ""
             THEN Raised(rest.raised, first.calls + rest.calls)
             ELSE Returned(List(<<first.value>> \o rest.value.items),
                           first.calls + rest.calls)

\* Faulty variant of build_error_from_django_validation_error: the code is
\* passed on as it is, without the 'invalid' default.
build_error_from_django_validation_error_without_default(exc_info) ==
    build_each(exc_info.messages, exc_info.code)

\* build_error_from_django_validation_error(exc_info)
build_error_from_django_validation_error(exc_info) ==
    LET code == IF truthy(exc_info.code) THEN exc_info.code ELSE Str("invalid")
    IN  build_each(exc_info.messages, code)

----------------------------------------------------------------------------
(* The exception classes. *)

HTTP_400_BAD_REQUEST == 400

HTTP_401_UNAUTHORIZED == 401

HTTP_403_FORBIDDEN == 403

HTTP_404_NOT_FOUND == 404

HTTP_405_METHOD_NOT_ALLOWED == 405

HTTP_406_NOT_ACCEPTABLE == 406

HTTP_415_UNSUPPORTED_MEDIA_TYPE == 415

HTTP_429_TOO_MANY_REQUESTS == 429

HTTP_500_INTERNAL_SERVER_ERROR == 500

\* The classes that take APIException.__init__ as it is.
PlainClasses ==
    {"APIException", "ParseError", "AuthenticationFailed", "NotAuthenticated",
     "PermissionDenied", "NotFound"}

\* cls.status_code
status_code(cls) ==
    CASE cls = "APIException" -> HTTP_500_INTERNAL_SERVER_ERROR
      [] cls = "ValidationError" -> HTTP_400_BAD_REQUEST
      [] cls = "ParseError" -> HTTP_400_BAD_REQUEST
      [] cls = "AuthenticationFailed" -> HTTP_401_UNAUTHORIZED
      [] cls = "NotAuthenticated" -> HTTP_401_UNAUTHORIZED
      [] cls = "PermissionDenied" -> HTTP_403_FORBIDDEN
      [] cls = "NotFound" -> HTTP_404_NOT_FOUND
      [] cls = "MethodNotAllowed" -> HTTP_405_METHOD_NOT_ALLOWED
      [] cls = "NotAcceptable" -> HTTP_406_NOT_ACCEPTABLE
      [] cls = "UnsupportedMediaType" -> HTTP_415_UNSUPPORTED_MEDIA_TYPE
      [] cls = "Throttled" -> HTTP_429_TOO_MANY_REQUESTS

\* cls.default_detail (ValidationError inherits APIException's)
default_detail(cls) ==
    CASE cls \in {"APIException", "ValidationError"} ->
            Lazy("A server error occurred.")
      [] cls = "ParseError" -> Lazy("Malformed request.")
      [] cls = "AuthenticationFailed" ->
            Lazy("Incorrect authentication credentials.")
      [] cls = "NotAuthenticated" ->
            Lazy("Authentication credentials were not provided.")
      [] cls = "PermissionDenied" ->
            Lazy("You do not have permission to perform this action.")
      [] cls = "NotFound" -> Lazy("Not found.")
      [] cls = "MethodNotAllowed" -> Lazy("Method \"{method}\" not allowed.")
      [] cls = "NotAcceptable" ->
            Lazy("Could not satisfy the request Accept header.")
      [] cls = "UnsupportedMediaType" ->
            Lazy("Unsupported media type \"{media_type}\" in request.")
      [] cls = "Throttled" -> Lazy("Request was throttled.")

\* Throttled.extra_detail_singular
extra_detail_singular == "Expected available in {wait} second."

\* Throttled.extra_detail_plural
extra_detail_plural == "Expected available in {wait} seconds."

\* An instance of cls before __init__ has set anything: status_code is read
\* through the class, the other attributes are not set (None here).
NewObject(cls) ==
    [cls |-> cls, status_code |-> status_code(cls), detail |-> NoneV,
     error_code |-> NoneV, wait |-> NoneV, available_renderers |-> NoneV]

\* No instance: the constructor has not run, or it raised.
NoObject ==
    [cls |-> "", status_code |-> 0, detail |-> NoneV,
     error_code |-> NoneV, wait |-> NoneV, available_renderers |-> NoneV]

\* APIException.__init__(self, detail=None), for cls and its plain subclasses
APIException(cls, detail) ==
    IF detail # NoneV
    THEN [NewObject(cls) EXCEPT !.detail = force_text(detail)]
    ELSE [NewObject(cls) EXCEPT !.detail = force_text(default_detail(cls))]

\* Faulty variant of ValidationError: a list or mapping detail is accepted
\* with an error_code whatever the settings.
ValidationError_accepting_compound_code(detail, error_code) ==
    IF ~isinstance(detail, "dict") /\ ~isinstance(detail, "list")
    THEN LET built == build_error(detail, error_code)
         IN  IF built.raised # "" THEN [built EXCEPT !.value = NoObject]
             ELSE Returned(
                    [NewObject("ValidationError") EXCEPT
                        !.detail = force_text_recursive(List(<<built.value>>)),
                        !.error_code = error_code],
                    built.calls)
    ELSE Returned(
           [NewObject("ValidationError") EXCEPT
               !.detail = force_text_recursive(detail),
               !.error_code = error_code],
           0)

\* Faulty variant of ValidationError: a single message is not wrapped in a
\* list.
ValidationError_not_wrapping(detail, error_code) ==
    IF ~isinstance(detail, "dict") /\ ~isinstance(detail, "list")
    THEN LET built == build_error(detail, error_code)
         IN  IF built.raised # "" THEN [built EXCEPT !.value = NoObject]
             ELSE Returned(
                    [NewObject("ValidationError") EXCEPT
                        !.detail = force_text_recursive(built.value),
                        !.error_code = error_code],
                    built.calls)
    ELSE IF api_settings.REQUIRE_ERROR_CODES /\ ~(error_code = NoneV)
    THEN [Raised("AssertionError", 0) EXCEPT !.value = NoObject]
    ELSE Returned(
           [NewObject("ValidationError") EXCEPT
               !.detail = force_text_recursive(detail),
               !.error_code = error_code],
           0)

\* ValidationError.__init__(self, detail, error_code=None)
ValidationError(detail, error_code) ==
    IF ~isinstance(detail, "dict") /\ ~isinstance(detail, "list")
    THEN LET built == build_error(detail, error_code)
         IN  IF built.raised # "" THEN [built EXCEPT !.value = NoObject]
             ELSE Returned(
                    [NewObject("ValidationError") EXCEPT
                        !.detail = force_text_recursive(List(<<built.value>>)),
                        !.error_code = error_code],
                    built.calls)
    ELSE IF api_settings.REQUIRE_ERROR_CODES /\ ~(error_code = NoneV)
    THEN [Raised("AssertionError", 0) EXCEPT !.value = NoObject]
    ELSE Returned(
           [NewObject("ValidationError") EXCEPT
               !.detail = force_text_recursive(detail),
               !.error_code = error_code],
           0)

\* Faulty variant of MethodNotAllowed: the detail override is ignored.
MethodNotAllowed_ignoring_detail(method, detail) ==
    [NewObject("MethodNotAllowed") EXCEPT
        !.detail = Str(format(force_text(default_detail("MethodNotAllowed")).v,
                              "method", method))]

\* MethodNotAllowed.__init__(self, method, detail=None)
MethodNotAllowed(method, detail) ==
    IF detail # NoneV
    THEN [NewObject("MethodNotAllowed") EXCEPT !.detail = force_text(detail)]
    ELSE [NewObject("MethodNotAllowed") EXCEPT
            !.detail = Str(format(force_text(default_detail("MethodNotAllowed")).v,
                                  "method", method))]

\* NotAcceptable.__init__(self, detail=None, available_renderers=None)
NotAcceptable(detail, available_renderers) ==
    [(IF detail # NoneV
      THEN [NewObject("NotAcceptable") EXCEPT !.detail = force_text(detail)]
      ELSE [NewObject("NotAcceptable") EXCEPT
              !.detail = force_text(default_detail("NotAcceptable"))])
     EXCEPT !.available_renderers = available_renderers]

\* UnsupportedMediaType.__init__(self, media_type, detail=None)
UnsupportedMediaType(media_type, detail) ==
    IF detail # NoneV
    THEN [NewObject("UnsupportedMediaType") EXCEPT !.detail = force_text(detail)]
    ELSE [NewObject("UnsupportedMediaType") EXCEPT
            !.detail =
                Str(format(force_text(default_detail("UnsupportedMediaType")).v,
                           "media_type", media_type))]

\* Throttled.__init__(self, wait=None, detail=None)
Throttled(wait, detail) ==
    LET first == IF detail # NoneV THEN force_text(detail)
                 ELSE force_text(default_detail("Throttled"))
        ceiled == math_ceil(wait)
        extra == force_text(Str(ungettext(
                    format(extra_detail_singular, "wait", ceiled),
                    format(extra_detail_plural, "wait", ceiled),
                    ceiled)))
    IN  IF wait = NoneV
        THEN [NewObject("Throttled") EXCEPT !.detail = first, !.wait = NoneV]
        ELSE [NewObject("Throttled") EXCEPT
                !.detail = Str(first.v \o " " \o extra.v),
                !.wait = ceiled]

----------------------------------------------------------------------------
(* The calls: Init draws the configuration, the operation and its          *)
(* arguments; one action per operation runs it to completion.              *)

\* exc_info of build_error_from_django_validation_error: a Django
\* ValidationError's code and messages.
NoExcInfo == [code |-> NoneV, messages |-> <<>>]

\* The arguments of a call; a parameter that is not given is None.
NoArgs ==
    [detail |-> NoneV, error_code |-> NoneV, method |-> NoneV,
     media_type |-> NoneV, wait |-> NoneV, available_renderers |-> NoneV,
     exc_info |-> NoExcInfo]

\* The outcome of a call that has not been made.
NotCalled == [raised |-> "not called", value |-> NoObject, calls |-> 0]

\* Explicit detail overrides of the plain exceptions (None: no override).
Overrides == {NoneV, Str("a"), Lazy("b"), Str("")}

Methods == {Str("POST"), Str("GET")}

MediaTypes == {Str("text/plain"), Lazy("image/png")}

Renderers == {NoneV, List(<<>>), List(<<Str("JSONRenderer")>>)}

Waits == {NoneV} \cup {Tenths(q) : q \in 0..MaxWaitTenths}

DjangoCodes == {NoneV, Str(""), Str("required")}

DjangoMessages ==
    UNION {[1..len -> {Str("a"), Str("b")}] : len \in 0..MaxMessages}

Ops ==
    PlainClasses \cup
    {"ValidationError", "MethodNotAllowed", "NotAcceptable",
     "UnsupportedMediaType", "Throttled", "build_error",
     "build_error_from_django_validation_error"}

ArgsOf(o) ==
    CASE o \in PlainClasses ->
            {[NoArgs EXCEPT !.detail = d] : d \in Overrides}
      [] o = "ValidationError" ->
            {[NoArgs EXCEPT !.detail = d, !.error_code = c] :
                d \in Details, c \in ErrorCodes}
      [] o = "MethodNotAllowed" ->
            {[NoArgs EXCEPT !.method = m, !.detail = d] :
                m \in Methods, d \in Overrides}
      [] o = "NotAcceptable" ->
            {[NoArgs EXCEPT !.detail = d, !.available_renderers = r] :
                d \in Overrides, r \in Renderers}
      [] o = "UnsupportedMediaType" ->
            {[NoArgs EXCEPT !.media_type = m, !.detail = d] :
                m \in MediaTypes, d \in Overrides}
      [] o = "Throttled" ->
            {[NoArgs EXCEPT !.wait = w, !.detail = d] :
                w \in Waits, d \in Overrides}
      [] o = "build_error" ->
            {[NoArgs EXCEPT !.detail = d, !.error_code = c] :
                d \in ValuesOfSize(1) \cup ValuesOfSize(2),
                c \in ErrorCodes \cup {Str("")}}
      [] o = "build_error_from_django_validation_error" ->
            {[NoArgs EXCEPT !.exc_info = [code |-> c, messages |-> ms]] :
                c \in DjangoCodes, ms \in DjangoMessages}

Init ==
    /\ api_settings \in [REQUIRE_ERROR_CODES : BOOLEAN,
                         ERROR_BUILDER : {"default_error_builder"}]
    /\ pc = "call"
    /\ op \in Ops
    /\ args \in ArgsOf(op)
    /\ self = NoObject
    /\ ret = NoneV
    /\ raised = ""
    /\ builder_calls = 0
    /\ rewrap = NotCalled

\* A constructor that cannot raise has built `object`.
Constructed(object) ==
    /\ pc' = "done"
    /\ self' = object
    /\ UNCHANGED <<api_settings, op, args, ret, raised, builder_calls, rewrap>>

\* APIException(detail) and its plain subclasses
Construct_APIException ==
    /\ pc = "call"
    /\ op \in PlainClasses
    /\ Constructed(APIException(op, args.detail))

\* ValidationError(detail, error_code)
Construct_ValidationError ==
    /\ pc = "call"
    /\ op = "ValidationError"
    /\ LET r == ValidationError(args.detail, args.error_code)
       IN  /\ self' = r.value
           /\ raised' = r.raised
           /\ builder_calls' = builder_calls + r.calls
    /\ pc' = "done"
    /\ UNCHANGED <<api_settings, op, args, ret, rewrap>>

\* ValidationError(exc.detail): an already built validation error's detail
\* is wrapped in a new ValidationError, without error_code.
Rewrap_ValidationError ==
    /\ pc = "done"
    /\ op = "ValidationError"
    /\ raised = ""
    /\ rewrap' = ValidationError(self.detail, NoneV)
    /\ pc' = "rewrapped"
    /\ UNCHANGED <<api_settings, op, args, self, ret, raised, builder_calls>>

\* MethodNotAllowed(method, detail)
Construct_MethodNotAllowed ==
    /\ pc = "call"
    /\ op = "MethodNotAllowed"
    /\ Constructed(MethodNotAllowed(args.method, args.detail))

\* NotAcceptable(detail, available_renderers)
Construct_NotAcceptable ==
    /\ pc = "call"
    /\ op = "NotAcceptable"
    /\ Constructed(NotAcceptable(args.detail, args.available_renderers))

\* UnsupportedMediaType(media_type, detail)
Construct_UnsupportedMediaType ==
    /\ pc = "call"
    /\ op = "UnsupportedMediaType"
    /\ Constructed(UnsupportedMediaType(args.media_type, args.detail))

\* Throttled(wait, detail)
Construct_Throttled ==
    /\ pc = "call"
    /\ op = "Throttled"
    /\ Constructed(Throttled(args.wait, args.detail))

\* A function call ended with outcome r.
Called(r) ==
    /\ pc' = "done"
    /\ ret' = r.value
    /\ raised' = r.raised
    /\ builder_calls' = builder_calls + r.calls
    /\ UNCHANGED <<api_settings, op, args, self, rewrap>>

\* build_error(detail, error_code)
Call_build_error ==
    /\ pc = "call"
    /\ op = "build_error"
    /\ Called(build_error(args.detail, args.error_code))

\* build_error_from_django_validation_error(exc_info)
Call_build_error_from_django_validation_error ==
    /\ pc = "call"
    /\ op = "build_error_from_django_validation_error"
    /\ Called(build_error_from_django_validation_error(args.exc_info))

Next ==
    \/ Construct_APIException
    \/ Construct_ValidationError
    \/ Rewrap_ValidationError
    \/ Construct_MethodNotAllowed
    \/ Construct_NotAcceptable
    \/ Construct_UnsupportedMediaType
    \/ Construct_Throttled
    \/ Call_build_error
    \/ Call_build_error_from_django_validation_error

Spec == Init /\ [][Next]_vars

----------------------------------------------------------------------------
(* Vocabulary of the properties. *)

\* The operation o has run (and, for ValidationError, possibly a re-wrap).
Ran(o) == op = o /\ pc # "call"

\* ValidationError(args.detail, args.error_code) has been constructed.
Succeeded(o) == Ran(o) /\ raised = ""

\* A single message: not a list and not a mapping.
IsSingle(d) == d.t \notin {"list", "dict"}

\* The text a leaf message resolves to.
ResolvedText(leaf) ==
    CASE leaf.t \in {"str", "lazy"} -> leaf.v
      [] leaf.t = "none" -> "None"

RECURSIVE PyEq(_, _)

\* Python's a == b: a lazy text equals the str of the same text, sequences
\* are compared element by element, mappings key by key.
PyEq(a, b) ==
    IF a.t \in {"str", "lazy"} /\ b.t \in {"str", "lazy"} THEN a.v = b.v
    ELSE /\ a.t = b.t
         /\ a.n = b.n
         /\ Len(a.items) = Len(b.items)
         /\ IF a.t = "dict"
            THEN /\ {a.keys[i] : i \in 1..Len(a.keys)}
                        = {b.keys[i] : i \in 1..Len(b.keys)}
                 /\ \A i, j \in 1..Len(a.items) :
                        a.keys[i] = b.keys[j] => PyEq(a.items[i], b.items[j])
            ELSE \A i \in 1..Len(a.items) : PyEq(a.items[i], b.items[i])

RECURSIVE SameShape(_, _)

\* out has the containers of in, of the same types, lengths, order and
\* keys, and each leaf of in has become the str of its resolved text.
SameShape(in, out) ==
    IF in.t \in {"list", "tuple", "dict"}
    THEN /\ out.t = in.t
         /\ Len(out.items) = Len(in.items)
         /\ out.keys = in.keys
         /\ \A i \in 1..Len(in.items) : SameShape(in.items[i], out.items[i])
    ELSE out = Str(ResolvedText(in))

RECURSIVE LeafTexts(_)

\* The texts of the leaves of a normalised detail.
LeafTexts(d) ==
    IF d.t \in {"list", "tuple", "dict"}
    THEN UNION {LeafTexts(d.items[i]) : i \in 1..Len(d.items)}
    ELSE {d.v}

RECURSIVE EveryLeafCarriesCode(_)

\* Every leaf validation error of a normalised detail is an entry
\* (message, code) with an explicit code; a bare message carries none, and
\* the text 'None' is what an absent code is normalised to.
EveryLeafCarriesCode(d) ==
    IF d.t \in {"list", "dict"}
    THEN \A i \in 1..Len(d.items) : EveryLeafCarriesCode(d.items[i])
    ELSE /\ d.t = "tuple"
         /\ Len(d.items) = 2
         /\ d.items[2].t = "str"
         /\ d.items[2].v # "None"

\* s ends with suffix.
EndsWith(s, suffix) ==
    /\ Len(s) >= Len(suffix)
    /\ SubSeq(s, Len(s) - Len(suffix) + 1, Len(s)) = suffix

----------------------------------------------------------------------------
(* The properties. *)

\* C1: for a single-message detail, a successfully constructed
\* ValidationError's detail is a one-element list whose element equals
\* build_error(detail, error_code).
C1_SingleDetailIsBuiltEntry ==
    (Succeeded("ValidationError") /\ IsSingle(args.detail)) =>
        /\ self.detail.t = "list"
        /\ Len(self.detail.items) = 1
        /\ PyEq(self.detail.items[1],
                build_error(args.detail, args.error_code).value)

\* C2 as claimed: under REQUIRE_ERROR_CODES every successfully constructed
\* ValidationError has a detail in which every leaf carries an explicit
\* error code, for single-message and compound inputs alike.
C2_EveryLeafHasCode ==
    (api_settings.REQUIRE_ERROR_CODES /\ Succeeded("ValidationError")) =>
        EveryLeafCarriesCode(self.detail)

\* C2 as amended: under REQUIRE_ERROR_CODES a ValidationError constructed
\* from a single message has a one-entry detail whose entry carries the
\* explicit error code given; one constructed from a list or mapping has no
\* top-level error_code (its leaves are not checked for codes).
C2_SingleHasCodeCompoundHasNone ==
    (api_settings.REQUIRE_ERROR_CODES /\ Succeeded("ValidationError")) =>
        IF IsSingle(args.detail)
        THEN /\ args.error_code # NoneV
             /\ self.detail.t = "list"
             /\ Len(self.detail.items) = 1
             /\ EveryLeafCarriesCode(self.detail)
             /\ self.detail.items[1].items[2] = args.error_code
        ELSE /\ args.error_code = NoneV
             /\ self.error_code = NoneV

C2_Witness ==
    /\ api_settings.REQUIRE_ERROR_CODES
    /\ Succeeded("ValidationError")
    /\ args.detail = Lazy("b")
    /\ self.detail = List(<<Tuple(<<Str("b"), Str("required")>>)>>)

\* C3: a list or mapping detail keeps, at every level, its container types,
\* lengths, element order and keys; only the leaves change, each to its
\* resolved string.
C3_ShapePreserved ==
    (Succeeded("ValidationError") /\ ~IsSingle(args.detail)) =>
        SameShape(args.detail, self.detail)

C3_Witness ==
    /\ Succeeded("ValidationError")
    /\ args.detail = Dict(<<"k2">>, <<List(<<Tuple(<<Lazy("b")>>)>>)>>)
    /\ self.detail = Dict(<<"k2">>, <<List(<<Tuple(<<Str("b")>>)>>)>>)

\* C4: a list or mapping detail with an error_code fails with the assertion
\* error when REQUIRE_ERROR_CODES is on; when it is off the construction
\* succeeds and the error_code is attached to no leaf of the detail.
C4_CompoundWithCode ==
    (Ran("ValidationError") /\ ~IsSingle(args.detail)
        /\ args.error_code # NoneV) =>
        IF api_settings.REQUIRE_ERROR_CODES
        THEN raised = "AssertionError" /\ self = NoObject
        ELSE /\ raised = ""
             /\ self.cls = "ValidationError"
             /\ args.error_code.v \notin LeafTexts(self.detail)
             /\ SameShape(args.detail, self.detail)
             /\ builder_calls = 0

C4_Witness ==
    /\ Ran("ValidationError")
    /\ api_settings.REQUIRE_ERROR_CODES
    /\ args.detail = List(<<Str("a"), Lazy("b")>>)
    /\ args.error_code = Str("required")
    /\ raised = "AssertionError"

\* C5: for a single message, build_error without error_code fails with the
\* assertion error under REQUIRE_ERROR_CODES, before the error builder is
\* called; with an error_code it succeeds in either mode and returns the
\* pair (message, error_code).
C5_BuildError ==
    (Ran("build_error") /\ IsSingle(args.detail)) =>
        /\ (args.error_code = NoneV /\ api_settings.REQUIRE_ERROR_CODES) =>
                raised = "AssertionError" /\ builder_calls = 0
        /\ args.error_code # NoneV =>
                /\ raised = ""
                /\ ret = Tuple(<<args.detail, args.error_code>>)
                /\ builder_calls = 1

C5_Witness ==
    /\ Ran("build_error")
    /\ api_settings.REQUIRE_ERROR_CODES
    /\ args.detail = Str("a")
    /\ args.error_code = NoneV
    /\ raised = "AssertionError"

\* The clause Throttled appends for a wait of k whole seconds.
WaitClause(k) ==
    "Expected available in " \o ToString(k)
        \o (IF k = 1 THEN " second." ELSE " seconds.")

\* C6 as claimed: Throttled stores the wait rounded up and appends the
\* clause; wait=1.4 gives wait 2 and a detail ending in "in 2 second.",
\* wait=30 one ending in "in 30 seconds.", and no wait leaves wait absent
\* and the detail the plain default message.
C6_ThrottledSingularForTwo ==
    Ran("Throttled") =>
        /\ args.wait = Tenths(14) =>
                self.wait = IntV(2) /\ EndsWith(self.detail.v, "in 2 second.")
        /\ args.wait = Tenths(300) => EndsWith(self.detail.v, "in 30 seconds.")
        /\ (args.wait = NoneV /\ args.detail = NoneV) =>
                self.wait = NoneV /\ self.detail = Str("Request was throttled.")

\* C6 as amended: Throttled stores the wait rounded up to the nearest
\* integer and appends the clause, singular only for a rounded wait of
\* exactly 1; wait=1.4 gives wait 2 and a detail ending in "in 2 seconds.",
\* wait=30 one ending in "in 30 seconds.", and no wait leaves wait absent
\* and the detail the plain default message.
C6_ThrottledPluralForTwo ==
    Ran("Throttled") =>
        /\ args.wait # NoneV =>
                /\ self.wait.t = "int"
                /\ 10 * self.wait.n >= args.wait.n
                /\ 10 * (self.wait.n - 1) < args.wait.n
                /\ EndsWith(self.detail.v, " " \o WaitClause(self.wait.n))
        /\ args.wait = Tenths(14) =>
                self.wait = IntV(2) /\ EndsWith(self.detail.v, "in 2 seconds.")
        /\ args.wait = Tenths(300) => EndsWith(self.detail.v, "in 30 seconds.")
        /\ args.wait = NoneV => self.wait = NoneV
        /\ (args.wait = NoneV /\ args.detail = NoneV) =>
                self.detail = Str("Request was throttled.")

C6_Witness ==
    /\ Ran("Throttled")
    /\ args.wait = Tenths(14)
    /\ args.detail = NoneV
    /\ self.wait = IntV(2)
    /\ self.detail = Str("Request was throttled. Expected available in 2 seconds.")

\* The error classes that have a default message.
MessageClasses ==
    PlainClasses \cup
    {"MethodNotAllowed", "NotAcceptable", "UnsupportedMediaType", "Throttled"}

\* MethodNotAllowed(m) without an override: status 405 and the templated
\* message.
MethodNotAllowedDefault ==
    (Ran("MethodNotAllowed") /\ args.detail = NoneV) =>
        /\ self.status_code = 405
        /\ self.detail = Str("Method \"" \o args.method.v \o "\" not allowed.")

\* C7 as claimed: for every error class with a default message and every
\* class-specific argument, an explicit detail override makes the detail
\* the resolved text of the override; without one MethodNotAllowed(m) has
\* status 405 and detail 'Method "m" not allowed.'.
C7_OverrideIsWholeDetail ==
    /\ \A c \in MessageClasses :
            (Ran(c) /\ args.detail # NoneV) =>
                self.detail = Str(ResolvedText(args.detail))
    /\ MethodNotAllowedDefault

\* C7 as amended: an explicit detail override makes the detail the resolved
\* text of the override, except that Throttled with a wait still appends
\* its wait clause to the override's text; without an override
\* MethodNotAllowed(m) has status 405 and detail 'Method "m" not allowed.'.
C7_OverrideThenWaitClause ==
    /\ \A c \in MessageClasses :
            (Ran(c) /\ args.detail # NoneV) =>
                IF c = "Throttled" /\ args.wait # NoneV
                THEN self.detail =
                        Str(ResolvedText(args.detail) \o " "
                                \o WaitClause(self.wait.n))
                ELSE self.detail = Str(ResolvedText(args.detail))
    /\ MethodNotAllowedDefault

C7_Witness ==
    /\ Ran("Throttled")
    /\ args.wait = Tenths(10)
    /\ args.detail = Lazy("b")
    /\ self.detail = Str("b Expected available in 1 second.")

\* The entries expected for messages ms and the code c, under the default
\* builder.
EntriesOf(ms, c) == List([i \in 1..Len(ms) |-> Tuple(<<ms[i], c>>)])

\* C8 as claimed: a field error with messages m1..mn and code c gives
\* exactly n entries in message order, the i-th (mi, c'), c' being c when c
\* is present and "invalid" when it is absent, also under
\* REQUIRE_ERROR_CODES.
C8_InvalidOnlyWhenAbsent ==
    Ran("build_error_from_django_validation_error") =>
        /\ raised = ""
        /\ ret = EntriesOf(args.exc_info.messages,
                           IF args.exc_info.code = NoneV THEN Str("invalid")
                           ELSE args.exc_info.code)

\* C8 as amended: ... c' being c when c is present and not empty, and
\* "invalid" when c is absent or the empty string; for code absent and
\* messages ["a","b"] the result is [("a","invalid"), ("b","invalid")],
\* also under REQUIRE_ERROR_CODES.
C8_InvalidWhenAbsentOrEmpty ==
    Ran("build_error_from_django_validation_error") =>
        /\ raised = ""
        /\ builder_calls = Len(args.exc_info.messages)
        /\ ret = EntriesOf(args.exc_info.messages,
                           IF args.exc_info.code \in {NoneV, Str("")}
                           THEN Str("invalid")
                           ELSE args.exc_info.code)
        /\ (args.exc_info.code = NoneV
                /\ args.exc_info.messages = <<Str("a"), Str("b")>>) =>
                ret = List(<<Tuple(<<Str("a"), Str("invalid")>>),
                             Tuple(<<Str("b"), Str("invalid")>>)>>)

C8_Witness ==
    /\ Ran("build_error_from_django_validation_error")
    /\ api_settings.REQUIRE_ERROR_CODES
    /\ args.exc_info = [code |-> NoneV, messages |-> <<Str("a"), Str("b")>>]
    /\ raised = ""
    /\ Len(ret.items) = 2

\* C9: a successfully constructed ValidationError's detail is a list or a
\* mapping, never a scalar: a mapping stays a mapping, a list a list, and
\* any other input becomes a one-element list.
C9_DetailIsListOrMapping ==
    Succeeded("ValidationError") =>
        /\ self.detail.t \in {"list", "dict"}
        /\ args.detail.t = "dict" => self.detail.t = "dict"
        /\ args.detail.t = "list" => self.detail.t = "list"
        /\ IsSingle(args.detail) =>
                self.detail.t = "list" /\ Len(self.detail.items) = 1

C9_Witness ==
    /\ Succeeded("ValidationError")
    /\ args.detail = Tuple(<<Str("a"), Lazy("b")>>)
    /\ self.detail.t = "list"
    /\ Len(self.detail.items) = 1

\* C10: normalising a normalised detail changes nothing, so wrapping the
\* detail of a ValidationError in a new ValidationError without error_code
\* succeeds and leaves the detail as it was.
C10_NormalisationIdempotent ==
    Succeeded("ValidationError") =>
        /\ force_text_recursive(self.detail) = self.detail
        /\ pc = "rewrapped" =>
                /\ rewrap.raised = ""
                /\ rewrap.value.detail = self.detail

C10_Witness ==
    /\ Succeeded("ValidationError")
    /\ pc = "rewrapped"
    /\ args.detail = List(<<Dict(<<"k1">>, <<Lazy("b")>>), NoneV>>)
    /\ rewrap.value.detail = List(<<Dict(<<"k1">>, <<Str("b")>>), Str("None")>>)

====
